---- MODULE Spec2Model ----
(***************************************************************************)
(* Model of sudoku_generator.py: the Sudoku class (topology, candidate     *)
(* lists, seeding, the solve() loop) and main's retry loop.                *)
(*                                                                         *)
(* grid[cell] = None is written 0.  values[cell] is a Python list and is   *)
(* modelled as a sequence (order and duplicates are kept).                 *)
(***************************************************************************)
EXTENDS Integers, Sequences, FiniteSets, TLC

(***************************************************************************)
(* Bounds of the model.                                                    *)
(***************************************************************************)
\* main's loop is unbounded; attempts are explored up to this many
MaxAttempts == 2
\* number of digits (1..SeedFree) for which sample() may pick one of two cells
SeedFree == 3
\* at most this many cells of the reference solution are blank in a board
\* handed directly to solve()
MaxBlanks == 4
\* number of solve() calls made in a row on one board
MaxSolveCalls == 2

None == 0

(***************************************************************************)
(* Topology: Sudoku.__init__                                               *)
(***************************************************************************)
digits == <<1, 2, 3, 4, 5, 6, 7, 8, 9>>
rows == digits
columns == digits
Range(s) == {s[i] : i \in DOMAIN s}

box_group_rows == <<{1, 2, 3}, {4, 5, 6}, {7, 8, 9}>>
box_group_cols == <<{1, 2, 3}, {4, 5, 6}, {7, 8, 9}>>

\* list(product(rows, columns)): row-major order
cells == [i \in 1..(Len(rows) * Len(columns)) |->
            <<rows[((i - 1) \div Len(columns)) + 1], columns[((i - 1) % Len(columns)) + 1]>>]
Cells == Range(cells)

row_groups == {{<<row, col>> : col \in Range(columns)} : row \in Range(rows)}
column_groups == {{<<row, col>> : row \in Range(rows)} : col \in Range(columns)}
box_groups == {box_group_rows[i] \X box_group_cols[j] :
                 i \in DOMAIN box_group_rows, j \in DOMAIN box_group_cols}
groupings == column_groups \cup row_groups \cup box_groups
cell_groups == [c \in Cells |-> {g \in groupings : c \in g}]
\* variant of related_cells that forgets to take the cell itself out
related_cells_with_self == [c \in Cells |-> UNION cell_groups[c]]
related_cells == [c \in Cells |-> (UNION cell_groups[c]) \ {c}]

\* validate: the four assertions
validate ==
  /\ Len(cells) = 81
  /\ Cardinality(groupings) = 27
  /\ \A s \in Cells : Cardinality(cell_groups[s]) = 3
  /\ \A s \in Cells : Cardinality(related_cells[s]) = 20

\* Iterating the set related_cells[c] visits its 20 cells in an order the
\* language does not fix.  Two orders are modelled: row-major ascending and
\* descending.
Reverse(s) == [i \in 1..Len(s) |-> s[Len(s) + 1 - i]]
PeerOrders == {"asc", "desc"}
peersAsc == [c \in Cells |-> SelectSeq(cells, LAMBDA x : x \in related_cells[c])]
peersDesc == [c \in Cells |-> Reverse(peersAsc[c])]
PeerSeq(order, c) == IF order = "asc" THEN peersAsc[c] ELSE peersDesc[c]

EmptyGrid == [c \in Cells |-> None]
EmptyValues == [c \in Cells |-> <<>>]

VARIABLES
  grid,          \* self.grid
  values,        \* self.values
  pc,            \* position in main / generate / solve
  nums,          \* _seed_puzzle_generation: digits still to place
  idx,           \* solve: index in self.cells of the cell being scanned
  cand,          \* solve: cell_value_candidates (the list object being iterated)
  k,             \* solve: position of possible_value in cand
  modified,      \* solve: modified_grid_values
  result,        \* value returned by the last solve()
  generated,     \* main: generated
  attempts,      \* main: attempts
  peerOrder,     \* iteration order of the peer sets in this run
  caller,        \* "main": solve() called by generate(); "direct": by a client
  contradiction, \* some propagate_value_changes() of this solve() returned False
  passes,        \* number of the current pass of the while loop of solve()
  calls,         \* number of solve() calls made on this board
  board0,        \* grid at the start of the current solve()
  prev           \* grid, values and result at the end of the previous solve()

vars == <<grid, values, pc, nums, idx, cand, k, modified, result, generated,
          attempts, peerOrder, caller, contradiction, passes, calls, board0, prev>>

NoPrev == [grid |-> EmptyGrid, values |-> EmptyValues, result |-> FALSE]

(***************************************************************************)
(* Pure helpers                                                            *)
(***************************************************************************)
\* _reset
ResetGrid == EmptyGrid
\* variant of _reset that forgets the candidate lists
ResetValuesKept == values
ResetValues == EmptyValues

\* variant of _related_cell_values that looks at the row and the column only
_related_cell_values_rowcol(g, cell) ==
  {g[r] : r \in {x \in related_cells[cell] :
                   g[x] # None /\ (x[1] = cell[1] \/ x[2] = cell[2])}}

\* _related_cell_values: the values assigned to the peers of cell.  The code
\* returns them as a list and only tests membership in it.
_related_cell_values(g, cell) == {g[r] : r \in {x \in related_cells[cell] : g[x] # None}}

\* variant of _init_solution_values that treats an assigned cell like an
\* unassigned one
_init_solution_values_noclue(g, vals) ==
  [c \in Cells |->
     vals[c] \o SelectSeq(digits, LAMBDA num : num \notin _related_cell_values(g, c))]

\* _init_solution_values: APPENDS to the existing lists
_init_solution_values(g, vals) ==
  [c \in Cells |->
     IF g[c] # None
       THEN Append(vals[c], g[c])
       ELSE vals[c] \o SelectSeq(digits, LAMBDA num : num \notin _related_cell_values(g, c))]

\* list.remove(x): removes the first occurrence
RECURSIVE IndexOf(_, _, _)
IndexOf(s, x, i) == IF i > Len(s) THEN 0 ELSE IF s[i] = x THEN i ELSE IndexOf(s, x, i + 1)
\* variant of the removal that leaves the list as it is
ListRemoveKeep(s, x) == s
ListRemove(s, x) ==
  LET i == IndexOf(s, x, 1)
  IN  SubSeq(s, 1, i - 1) \o SubSeq(s, i + 1, Len(s))
Contains(s, x) == \E i \in DOMAIN s : s[i] = x

\* inner loop of propagate_value_changes over the peers of one cell, visited
\* in the order peers: cell_value is removed from every peer that holds it,
\* up to and including the first peer whose list becomes empty
RemoveFromPeers(vals, cell_value, peers) ==
  LET holds == {j \in DOMAIN peers : Contains(vals[peers[j]], cell_value)}
      emptied == {j \in holds : Len(ListRemove(vals[peers[j]], cell_value)) = 0}
      last == IF emptied = {} THEN Len(peers)
              ELSE CHOOSE j \in emptied : \A i \in emptied : j <= i
      removed == {peers[j] : j \in {i \in holds : i <= last}}
  IN  [values |-> [c \in Cells |-> IF c \in removed THEN ListRemove(vals[c], cell_value)
                                                   ELSE vals[c]],
       ok |-> emptied = {}]

\* propagate_value_changes: the loop "for cell in self.cells" over the cells
\* number lo..hi, in that order ("return False" ends the whole loop).  The
\* range is split in two halves only to keep the evaluation shallow.
RECURSIVE PropagateRange(_, _, _, _)
PropagateRange(vals, order, lo, hi) ==
  IF lo = hi
    THEN LET cell == cells[lo]
         IN  IF Len(vals[cell]) = 1
               THEN RemoveFromPeers(vals, vals[cell][1], PeerSeq(order, cell))
               ELSE [values |-> vals, ok |-> TRUE]
    ELSE LET mid == (lo + hi) \div 2
             r == PropagateRange(vals, order, lo, mid)
         IN  IF r.ok THEN PropagateRange(r.values, order, mid + 1, hi) ELSE r

propagate_value_changes(vals, order) == PropagateRange(vals, order, 1, Len(cells))

\* solve, lines 217-224: some peer of cell has no peer holding possible_value
CanAssign(g, cell, possible_value) ==
  \E rel_cell \in related_cells[cell] : possible_value \notin _related_cell_values(g, rel_cell)

\* variant of the final check that only rejects lists longer than one
AllSingleAtMostOne(vals) == \A c \in Cells : Len(vals[c]) <= 1

\* solve, lines 238-244: the final check
AllSingle(vals) == \A c \in Cells : Len(vals[c]) = 1

(***************************************************************************)
(* Inputs                                                                  *)
(***************************************************************************)
\* sample(self.digits, 9): two of the 9! orders
NumOrders == {digits, Reverse(digits)}

\* sample(self.cells, 81) followed by "first unoccupied cell": any unoccupied
\* cell.  The model lets digit n land on the diagonal cell (n, n) or, for the
\* first SeedFree digits, also on the cell to its right or on the cell above
\* it, which the previous digit may have taken.
SampleCells(n) ==
  {<<n, n>>} \cup (IF n <= SeedFree THEN {<<n, n + 1>>} ELSE {})
             \cup (IF 2 <= n /\ n <= SeedFree THEN {<<n - 1, n>>} ELSE {})

\* variant of the test of line 135 that takes any cell
UnoccupiedAny(g) == Cells

\* _seed_puzzle_generation, line 135: the cells with "self.grid[cell] is None"
Unoccupied(g) == {c \in Cells : g[c] = None}

\* A solved grid, used to build the boards handed directly to solve()
Solution == [c \in Cells |->
               ((3 * ((c[1] - 1) % 3) + ((c[1] - 1) \div 3) + (c[2] - 1)) % 9) + 1]
BlankPool == {<<1, 1>>, <<1, 4>>, <<3, 4>>, <<3, 7>>, <<1, 2>>, <<4, 1>>}
BlankSets == {B \in SUBSET BlankPool : Cardinality(B) <= MaxBlanks}
\* the solved grid with the cells of B unassigned
Blanked(B) == [c \in Cells |-> IF c \in B THEN None ELSE Solution[c]]
Boards == {Blanked(B) : B \in BlankSets}
\* pairs of cells of one row: the first receives the digit of the second
DupPairs == {<<<<1, 3>>, <<1, 5>>>>, <<<<3, 1>>, <<3, 9>>>>}
ConflictBlankPool == {<<1, 1>>, <<1, 2>>, <<4, 1>>}
ConflictBlankSets == {B \in SUBSET ConflictBlankPool : Cardinality(B) <= MaxBlanks}
ConflictBoards == {[Blanked(B) EXCEPT ![d[1]] = Solution[d[2]]] :
                     B \in ConflictBlankSets, d \in DupPairs}

TypeOK ==
  /\ grid \in [Cells -> 0..9]
  /\ \A c \in Cells : values[c] \in Seq(1..9)
  /\ pc \in {"main", "seed", "init", "scan", "try", "write", "final", "returned", "exit"}
  /\ idx \in 1..(Len(cells) + 1)
  /\ modified \in BOOLEAN /\ result \in BOOLEAN /\ generated \in BOOLEAN
  /\ attempts \in 0..MaxAttempts
  /\ peerOrder \in PeerOrders

(***************************************************************************)
(* main and generate                                                       *)
(***************************************************************************)
Init ==
  /\ grid = EmptyGrid
  /\ values = EmptyValues
  /\ pc = "main"
  /\ nums = <<>>
  /\ idx = 1
  /\ cand = <<>>
  /\ k = 1
  /\ modified = FALSE
  /\ result = FALSE
  /\ generated = FALSE
  /\ attempts = 0
  /\ peerOrder \in PeerOrders
  /\ caller = "main"
  /\ contradiction = FALSE
  /\ passes = 0
  /\ calls = 0
  /\ board0 = EmptyGrid
  /\ prev = NoPrev

\* main: "if sudoku.validate()", then "while not generated" calls generate(),
\* which starts seeding
Generate ==
  /\ pc = "main"
  /\ validate
  /\ ~generated
  /\ attempts < MaxAttempts
  /\ \E order \in NumOrders : nums' = order
  /\ pc' = "seed"
  /\ calls' = 0
  /\ UNCHANGED <<grid, values, idx, cand, k, modified, result, generated, attempts,
                 peerOrder, caller, contradiction, passes, board0, prev>>

\* _seed_puzzle_generation: one iteration of "for n in nums"
SeedDigit ==
  /\ pc = "seed"
  /\ Len(nums) > 0
  /\ LET n == Head(nums)
         free == Unoccupied(grid)
     IN  IF free = {}
           THEN grid' = grid
           ELSE \E cell \in SampleCells(n) \cap free : grid' = [grid EXCEPT ![cell] = n]
  /\ nums' = Tail(nums)
  /\ pc' = IF Len(nums) = 1 THEN "init" ELSE "seed"
  /\ UNCHANGED <<values, idx, cand, k, modified, result, generated, attempts,
                 peerOrder, caller, contradiction, passes, calls, board0, prev>>

(***************************************************************************)
(* solve                                                                   *)
(***************************************************************************)
\* solve, lines 201-203
InitSolutionValues ==
  /\ pc = "init"
  /\ values' = _init_solution_values(grid, values)
  /\ modified' = TRUE
  /\ idx' = Len(cells) + 1
  /\ passes' = 0
  /\ contradiction' = FALSE
  /\ calls' = calls + 1
  /\ board0' = grid
  /\ pc' = "scan"
  /\ UNCHANGED <<grid, nums, cand, k, result, generated, attempts, peerOrder, caller, prev>>

\* solve, lines 204-205: the test of the while loop, between two passes
PassEnd ==
  /\ pc = "scan"
  /\ idx = Len(cells) + 1
  /\ IF modified
       THEN /\ modified' = FALSE
            /\ idx' = 1
            /\ passes' = passes + 1
            /\ pc' = "scan"
       ELSE /\ pc' = "final"
            /\ UNCHANGED <<modified, idx, passes>>
  /\ UNCHANGED <<grid, values, nums, cand, k, result, generated, attempts,
                 peerOrder, caller, contradiction, calls, board0, prev>>

\* solve, lines 208-210: one iteration of "for cell in self.cells"
ScanCell ==
  /\ pc = "scan"
  /\ idx <= Len(cells)
  /\ LET cell == cells[idx]
     IN  IF Len(values[cell]) > 1
           THEN /\ cand' = values[cell]
                /\ k' = 1
                /\ pc' = "try"
                /\ idx' = idx
           ELSE /\ idx' = idx + 1
                /\ UNCHANGED <<cand, k, pc>>
  /\ UNCHANGED <<grid, values, nums, modified, result, generated, attempts,
                 peerOrder, caller, contradiction, passes, calls, board0, prev>>

\* the next possible_value of cand, or the next cell when cand is exhausted
Advance ==
  IF k < Len(cand)
    THEN /\ k' = k + 1
         /\ pc' = "try"
         /\ UNCHANGED <<idx, cand>>
    ELSE /\ k' = 1
         /\ cand' = <<>>
         /\ idx' = idx + 1
         /\ pc' = "scan"

\* solve, lines 213-228: one possible_value; the loop over related_cells
\* reaches line 226 for the first peer that passes the test, if any
TryValue ==
  /\ pc = "try"
  /\ LET cell == cells[idx]
         possible_value == cand[k]
     IN  IF CanAssign(grid, cell, possible_value)
           THEN LET r == propagate_value_changes([values EXCEPT ![cell] = <<possible_value>>],
                                                 peerOrder)
                IN  /\ values' = r.values
                    /\ contradiction' = (contradiction \/ ~r.ok)
                    /\ modified' = TRUE
                    /\ pc' = "write"
                    /\ UNCHANGED <<idx, cand, k>>
           ELSE /\ Advance
                /\ UNCHANGED <<values, contradiction, modified>>
  /\ UNCHANGED <<grid, nums, result, generated, attempts, peerOrder, caller,
                 passes, calls, board0, prev>>

\* solve, line 232; afterwards every remaining peer takes the "continue"
WriteGrid ==
  /\ pc = "write"
  /\ grid' = [grid EXCEPT ![cells[idx]] = cand[k]]
  /\ Advance
  /\ UNCHANGED <<values, nums, modified, result, generated, attempts, peerOrder,
                 caller, contradiction, passes, calls, board0, prev>>

\* solve, lines 238-244
Final ==
  /\ pc = "final"
  /\ result' = AllSingle(values)
  /\ pc' = "returned"
  /\ UNCHANGED <<grid, values, nums, idx, cand, k, modified, generated, attempts,
                 peerOrder, caller, contradiction, passes, calls, board0, prev>>

\* generate, lines 143-146, and the rest of main's loop body
GenerateReturn ==
  /\ pc = "returned"
  /\ caller = "main"
  /\ IF ~result
       THEN /\ grid' = ResetGrid
            /\ values' = ResetValues
       ELSE UNCHANGED <<grid, values>>
  /\ generated' = result
  /\ attempts' = attempts + 1
  /\ pc' = IF result THEN "exit" ELSE "main"
  /\ UNCHANGED <<nums, idx, cand, k, modified, result, peerOrder, caller,
                 contradiction, passes, calls, board0, prev>>

\* a client calls solve() again on the board the previous call left
SolveAgain ==
  /\ pc = "returned"
  /\ caller = "direct"
  /\ calls < MaxSolveCalls
  /\ prev' = [grid |-> grid, values |-> values, result |-> result]
  /\ pc' = "init"
  /\ UNCHANGED <<grid, values, nums, idx, cand, k, modified, result, generated, attempts,
                 peerOrder, caller, contradiction, passes, calls, board0>>

Next == Generate \/ SeedDigit \/ InitSolutionValues \/ PassEnd \/ ScanCell
          \/ TryValue \/ WriteGrid \/ Final \/ GenerateReturn

Spec == Init /\ [][Next]_vars

(***************************************************************************)
(* solve() called directly on a prepared board                             *)
(***************************************************************************)
InitDirect(boards) ==
  /\ grid \in boards
  /\ values = EmptyValues
  /\ pc = "init"
  /\ nums = <<>>
  /\ idx = 1
  /\ cand = <<>>
  /\ k = 1
  /\ modified = FALSE
  /\ result = FALSE
  /\ generated = FALSE
  /\ attempts = 0
  /\ peerOrder \in PeerOrders
  /\ caller = "direct"
  /\ contradiction = FALSE
  /\ passes = 0
  /\ calls = 0
  /\ board0 = EmptyGrid
  /\ prev = NoPrev

NextSolve == InitSolutionValues \/ PassEnd \/ ScanCell \/ TryValue \/ WriteGrid
               \/ Final \/ SolveAgain

\* boards without conflict: a solved grid with some cells blanked
InitSolve == InitDirect(Boards)
SpecSolve == InitSolve /\ [][NextSolve]_vars

\* boards in which two cells of one row hold the same digit
InitConflict == InitDirect(ConflictBoards)
SpecConflict == InitConflict /\ [][NextSolve]_vars


(***************************************************************************)
(* Properties                                                              *)
(***************************************************************************)
\* two distinct cells of one row, one column or one 3x3 box
SameGroup(a, b) ==
  /\ a # b
  /\ \/ a[1] = b[1]
     \/ a[2] = b[2]
     \/ /\ (a[1] - 1) \div 3 = (b[1] - 1) \div 3
        /\ (a[2] - 1) \div 3 = (b[2] - 1) \div 3

\* no two assigned cells of one group hold the same digit
Unique(g) ==
  \A a \in Cells : g[a] # None =>
    \A b \in Cells : (SameGroup(a, b) /\ g[b] # None) => g[a] # g[b]

\* the solve() call has assigned at least one cell
SolveAssigned == \E c \in Cells : board0[c] = None /\ grid[c] # None

C3_FailureDiscardsBoard ==
  (pc = "main") => \A c \in Cells : grid[c] = None /\ values[c] = <<>>

C3_Witness ==
  /\ pc = "main" /\ attempts >= 1 /\ ~generated
  /\ \E c \in Cells : board0[c] # None
  /\ contradiction

\* C4: after every completed pass of the while loop of solve() on a seeded
\* board, no two assigned cells of a group hold the same digit
C4_PassKeepsGridConsistent ==
  (pc = "scan" /\ idx = Len(cells) + 1 /\ passes >= 1 /\ caller = "main") => Unique(grid)

\* C5: on a board in which two cells of one row hold the same digit, solve()
\* returns False and one of the two cells ends with an empty candidate list
C5_ConflictRejected ==
  (pc = "returned" /\ calls = 1) =>
    /\ ~result
    /\ \E a \in Cells, b \in Cells :
         /\ a # b /\ a[1] = b[1]
         /\ board0[a] # None /\ board0[a] = board0[b]
         /\ (values[a] = <<>> \/ values[b] = <<>>)

\* C6: right after _init_solution_values() on empty candidate lists, an
\* unassigned cell lists exactly the digits no peer holds, each once, and an
\* assigned cell lists exactly its digit
C6_InitCandidates ==
  (pc = "scan" /\ passes = 0 /\ caller = "main") =>
    \A c \in Cells :
      IF grid[c] = None
        THEN /\ Range(values[c]) = (1..9) \ {grid[p] : p \in {q \in Cells : SameGroup(c, q)}}
             /\ Len(values[c]) = Cardinality(Range(values[c]))
        ELSE values[c] = <<grid[c]>>

C6_Witness ==
  /\ pc = "scan" /\ passes = 0 /\ caller = "main"
  /\ \E c \in Cells : grid[c] # None
  /\ \E c \in Cells : grid[c] = None /\ Len(values[c]) \in 1..8

OutSolved == result /\ \A c \in Cells : Len(values[c]) = 1
OutContradiction == ~result /\ \E c \in Cells : Len(values[c]) = 0
OutIncomplete ==
  /\ ~result
  /\ \A c \in Cells : Len(values[c]) # 0
  /\ \E c \in Cells : Len(values[c]) > 1
ExactlyOneOutcome ==
  /\ OutSolved \/ OutContradiction \/ OutIncomplete
  /\ ~(OutSolved /\ OutContradiction)
  /\ ~(OutSolved /\ OutIncomplete)
  /\ ~(OutContradiction /\ OutIncomplete)

\* A variant of solve(): the number of cells with more than one candidate,
\* then the modified flag, then what is left of the current pass.
SolvePcs == {"init", "scan", "try", "write", "final"}
Multi == Cardinality({c \in Cells : Len(values[c]) > 1})
Inner ==
  CASE pc = "scan" -> 2 * Len(digits) + 2
    [] pc = "try" -> 2 * (Len(cand) - k) + 1
    [] pc = "write" -> 2 * (Len(cand) - k)
PassLeft == (Len(cells) + 1 - idx) * 32 + Inner
Rank ==
  CASE pc = "init" -> 2 * (Len(cells) + 1) * 4096
    [] pc \in {"scan", "try", "write"} ->
         (2 * Multi + (IF modified THEN 1 ELSE 0)) * 4096 + PassLeft + 2
    [] pc = "final" -> 1
    [] OTHER -> 0

\* C7: solve() on a seeded board terminates: every step of solve() decreases
\* the natural number Rank, so the while loop runs finitely many passes; when
\* solve() has returned, exactly one of Solved, Contradiction, Incomplete holds
C7_SolveTerminates ==
  /\ [][(pc \in SolvePcs) => (Rank' < Rank /\ Rank' >= 0)]_vars
  /\ [](pc = "returned" => ExactlyOneOutcome)

C7_Witness == pc = "returned" /\ caller = "main" /\ passes >= 2 /\ OutContradiction

\* C8: if some propagate_value_changes() of a solve() call returned False,
\* that call returns False
C8_ContradictionFails ==
  (pc = "returned" /\ contradiction) => ~result

\* C9: once a propagate_value_changes() of a solve() call has returned False,
\* no later step of that call changes grid or values
C9_NoMutationAfterContradiction ==
  [][(contradiction /\ pc \in {"scan", "try", "write", "final"})
       => (grid' = grid /\ values' = values)]_vars

\* C10: a second solve() on a board for which solve() just returned True
\* leaves grid and values as they were and returns True
C10_SecondSolveIsNoOp ==
  (pc = "returned" /\ calls >= 2 /\ prev.result) =>
    (grid = prev.grid /\ values = prev.values /\ result)

\* C11: when _seed_puzzle_generation() has run on the empty board, exactly 9
\* cells are assigned and each digit of 1..9 is on exactly one cell
C11_SeedPlacesEachDigitOnce ==
  (pc = "init" /\ caller = "main") =>
    /\ Cardinality({c \in Cells : grid[c] # None}) = 9
    /\ \A n \in 1..9 : Cardinality({c \in Cells : grid[c] = n}) = 1

\* a seed in which a cell that two digits could draw is occupied
C11_Witness == pc = "init" /\ caller = "main" /\ grid[<<1, 2>>] # None

\* C12: before and after every generate(), solve() and _reset() call there
\* are 81 cells and 27 groups, every cell is in exactly 3 groups and has
\* exactly 20 peers, none of them the cell itself
C12_TopologyValid ==
  (pc \in {"main", "init", "returned", "exit"}) =>
  /\ Len(cells) = 81 /\ Cardinality(Cells) = 81
  /\ Cardinality(groupings) = 27
  /\ \A c \in Cells :
       /\ Cardinality({g \in groupings : c \in g}) = 3
       /\ Cardinality(related_cells[c]) = 20
       /\ c \notin related_cells[c]
       /\ related_cells[c] = {q \in Cells : SameGroup(c, q)}

\* a state after a whole generate(), with its solve() and its _reset()
C12_Witness ==
  /\ pc = "main" /\ attempts >= 1 /\ calls >= 1
  /\ grid = EmptyGrid
  /\ Cardinality(related_cells[<<1, 1>>]) = 20

\* the seed of the scenario: digit i on the diagonal cell (i, i)
DiagonalBoard == [c \in Cells |-> IF c[1] = c[2] THEN c[1] ELSE None]

\* C13: solve() on the board seeded with digit i on cell (i, i) returns True
C13_DiagonalSolves ==
  (pc = "returned" /\ caller = "main" /\ board0 = DiagonalBoard) => result

\* C14: every write of solve() to grid is to a cell that is unassigned and whose
\* candidate list, when the cell was selected, held exactly the digit written;
\* so an assigned cell is never overwritten
C14_AssignOnlyForcedUnassigned ==
  [][(pc \in SolvePcs) =>
       \A c \in Cells : grid'[c] # grid[c] => (grid[c] = None /\ cand = <<grid'[c]>>)]_vars

\* C15: when an assignment step of solve() ends with the write to grid, no
\* peer of the assigned cell has the assigned digit in its candidate list
C15_PeersLoseAssignedDigit ==
  [][(pc = "write") =>
       \A p \in Cells : SameGroup(cells[idx], p) => ~Contains(values'[p], cand[k])]_vars

\* C16: after _init_solution_values() and between the assignment steps of
\* solve(), the candidate list of an assigned cell is the singleton of its digit
C16_AssignedCellsAreSingletons ==
  (pc \in {"scan", "try", "final"} /\ caller = "main") =>
    \A c \in Cells : grid[c] # None => values[c] = <<grid[c]>>

\* the candidate lists that depend on the assignments of g only
FromScratch(g) ==
  [c \in Cells |->
     IF g[c] # None THEN <<g[c]>>
     ELSE SelectSeq(<<1, 2, 3, 4, 5, 6, 7, 8, 9>>,
                    LAMBDA d : \A p \in Cells : SameGroup(c, p) => g[p] # d)]

\* C17: right after _init_solution_values(), on the first call or on a later
\* one, the candidate lists are those computed from grid alone
C17_InitFromScratch ==
  (pc = "scan" /\ passes = 0) => values = FromScratch(grid)

\* C18: during and after solve() every seeded cell holds its seeded digit
C18_CluesKept ==
  (pc \in {"scan", "try", "write", "final", "returned"} /\ caller = "main") =>
    \A c \in Cells : board0[c] # None => grid[c] = board0[c]

C18_Witness ==
  /\ pc = "returned" /\ caller = "main"
  /\ Cardinality({c \in Cells : board0[c] # None}) = 9
  /\ Cardinality({c \in Cells : grid[c] # None}) > 9

\* C19: after _init_solution_values() no step of solve() adds a digit to a
\* candidate list
C19_CandidatesOnlyShrink ==
  [][(pc \in {"scan", "try", "write"}) =>
       \A c \in Cells : Range(values'[c]) \subseteq Range(values[c])]_vars

====
